---- MODULE Spec2Model ----
(***************************************************************************)
(* Device-type managers, their DeviceService session store and the        *)
(* per-device monitor tasks of the medical device management system.      *)
(*                                                                         *)
(* One behaviour follows one manager object (HeatingBedManager,           *)
(* PhototherapyManager, SterilizerManager or SurgicalLightManager): each  *)
(* manager owns its own DeviceService, task registry and alert table, so  *)
(* the managers share no in-memory state.  `kind` says which one.         *)
(*                                                                         *)
(* Time is in seconds, temperatures in tenths of a degree Celsius,        *)
(* pressures in tenths of a bar.                                          *)
(*                                                                         *)
(* The database calls of DeviceService (get_by_id, update), its           *)
(* record_device_alert, and the devices' start_monitoring,                *)
(* stop_monitoring, get_status and get_parameters are called by the       *)
(* source but defined nowhere in it: they are modelled as the             *)
(* specification describes them.  Whether DeviceFactory.create_device     *)
(* yields an instance or raises is an input of connect_device.            *)
(***************************************************************************)
EXTENDS Integers, Sequences, FiniteSets, TLC

VARIABLES
    kind,               \* which manager class the behaviour follows
    now,                \* datetime.utcnow(), seconds
    records,            \* Device rows of the database: id -> status column
    activeDevices,      \* DeviceService._active_devices: key -> instance
    monitoringTasks,    \* manager._monitoring_tasks: key -> task handle
    tasks,              \* the asyncio tasks that have not finished, by handle
    temperatureAlerts,  \* HeatingBedManager._temperature_alerts
    sink,               \* alerts handed to record_device_alert, in order
    condSince,          \* history: per condition, the start of the current
                        \*   unbroken run of polls that saw it true, and
                        \*   whether such a run has started none, one or
                        \*   many times
    lastOp,             \* history: the step just taken and what it returned
    activeAlerts,       \* AlertService._active_alerts: alert id -> alert
    monitorTask,        \* AlertService._monitor_task: None or the running task
    alertOp,            \* history: the AlertService step just taken, with
                        \*   the conditions its checks were given
    deviceStatus,       \* a device object on its own: BaseDevice.status
    bed,                \* HeatingBed: target_temperature, current_temperature,
                        \*   is_heating
    active_sessions,    \* PhototherapyLight.active_sessions: id -> session
    active_cycles,      \* Sterilizer.active_cycles: id -> cycle
    light,              \* SurgicalLight: light_intensity, focus_position,
                        \*   camera_active
    call,               \* history: the method of the device object just
                        \*   called, its arguments and how it ended
    jwt_secret,         \* UserService.jwt_secret
    previous_jwt_secret,\* UserService.previous_jwt_secret
    issued,             \* the tokens authenticate() has returned
    userOp              \* history: the UserService call just made

\* The AlertService object: no manager reads or writes it
alertVars == <<activeAlerts, monitorTask, alertOp>>

\* A device object driven directly through its own methods
deviceVars == <<deviceStatus, bed, active_sessions, active_cycles, light, call>>

\* The UserService object
userVars == <<jwt_secret, previous_jwt_secret, issued, userOp>>

outsideManager == <<alertVars, deviceVars, userVars>>

vars == <<kind, now, records, activeDevices, monitoringTasks, tasks,
          temperatureAlerts, sink, condSince, lastOp, outsideManager>>

----------------------------------------------------------------------------
(* Bounds of the model *)

MaxTicks == 13
MaxShortTicks == 3
MaxTasks == 2
MaxAlerts == 2
MaxChecks == 2
MaxRecords == 2
MaxRotations == 2
MaxTokens == 2
MaxHalfHours == 3

(* Device ids used by the callers; only the Registered ones have a row *)
DeviceIds == {1, 2}
Registered == {1}

Kinds == {"HeatingBed", "PhototherapyLight", "Sterilizer", "SurgicalLight"}

(* Identities of device objects: a new object has an identity no live object has *)
Instances == {1, 2}

----------------------------------------------------------------------------
(* Program constants *)

HeatingBedPollInterval == 30
HeatingBedErrorBackoff == 60
HeatingBedDebounce == 300
HeatingBedDeviationThreshold == 10
HeatingBedHighSeverity == 20
HeatingBedDefaultTemperature == 370

PhototherapyPollInterval == 30
PhototherapyErrorBackoff == 60
SessionAlertThreshold == 900
IntensityDeviationThreshold == 5
DefaultTargetIntensity == 100

SterilizerPollInterval == 10
SterilizerErrorBackoff == 30
CycleTempThreshold == 20
CyclePressureThreshold == 2
CycleTempHigh == 30
CyclePressureHigh == 3

SurgicalPollInterval == 5
SurgicalErrorBackoff == 30
LowIntensityThreshold == 10

PollInterval(k) ==
    CASE k = "HeatingBed" -> HeatingBedPollInterval
      [] k = "PhototherapyLight" -> PhototherapyPollInterval
      [] k = "Sterilizer" -> SterilizerPollInterval
      [] k = "SurgicalLight" -> SurgicalPollInterval

----------------------------------------------------------------------------
(* Python values and dictionaries *)

\* str(device_id): a dictionary key.  An int and its str() are different
\* values, and `in` on a dict compares the values as they are.
PyInt(d) == <<"int", d>>
PyStr(d) == <<"str", d>>

EmptyDict == [x \in {} |-> 0]
Put(f, k, v) == [x \in (DOMAIN f) \cup {k} |-> IF x = k THEN v ELSE f[x]]
Del(f, k) == [x \in (DOMAIN f) \ {k} |-> f[x]]

Abs(x) == IF x < 0 THEN -x ELSE x

NoTime == -1
NoTask == 0
NoInst == 0

----------------------------------------------------------------------------
(* What the physical device can report: get_parameters() of the variant *)

Readings(k) ==
    CASE k = "HeatingBed" ->
            { [current_temperature |-> c, target_temperature |-> HeatingBedDefaultTemperature]
                : c \in {380, 390, 400} }
      [] k = "Sterilizer" ->
            { [cycle_active |-> FALSE, current_temperature |-> 1340,
               target_temperature |-> 1340, current_pressure |-> 21,
               target_pressure |-> 21] }
            \cup
            { [cycle_active |-> TRUE, current_temperature |-> c,
               target_temperature |-> 1340, current_pressure |-> 21,
               target_pressure |-> 21] : c \in {1340, 1365} }
      [] k = "PhototherapyLight" ->
            { [session_active |-> FALSE, start_time |-> 0,
               planned_duration_minutes |-> 16,
               light_intensity |-> DefaultTargetIntensity,
               current_intensity |-> 100] }
            \cup
            { [session_active |-> TRUE, start_time |-> 0,
               planned_duration_minutes |-> 16,
               light_intensity |-> DefaultTargetIntensity,
               current_intensity |-> i] : i \in {100, 90} }
      [] k = "SurgicalLight" ->
            { [light_intensity |-> i] : i \in {0, 50} }

\* The reading of a fetch that delivers none
AnyReading(k) == CHOOSE r \in Readings(k) : TRUE

AlertTypes ==
    {"temperature_deviation", "cycle_deviation", "session_ending",
     "intensity_deviation"}

----------------------------------------------------------------------------
(* History record of the step just taken *)

NoOp ==
    [name |-> "init", dev |-> 0, result |-> "none", task |-> NoTask,
     inst |-> NoInst, caught |-> FALSE]

Bool(b) == IF b THEN "true" ELSE "false"

NoAlertOp == [name |-> "init", id |-> <<"none", 0>>, conds |-> {}]

NoCall == [name |-> "init", args |-> <<>>, result |-> "none", value |-> "none"]

\* JWT secrets: secrets.token_hex(32) gives a secret never used before, here
\* the next number; None is 0 and a secret of somebody else is -1
NoSecret == 0
FirstSecret == 1
ForeignSecret == -1

\* A token as far as verification reads it: the secret that signed it and its
\* 'exp' claim
Token(secret, exp) == [secret |-> secret, exp |-> exp]
NoToken == Token(NoSecret, 0)

NoUserOp == [name |-> "init", token |-> NoToken, result |-> "none"]

\* Python floats: a number (here in tenths) or NaN
Float(x) == <<"float", x>>
NaN == <<"nan", 0>>
PyNone == <<"None", 0>>

\* Other Python values a caller can pass: True/False, a str that is no number
\* (PyStr(n) is the str of the number n), an int too large for a float
PyBool(b) == <<"bool", IF b THEN 1 ELSE 0>>
PyText == <<"text", 0>>
PyHugeInt == <<"bigint", 0>>

\* SurgicalLight.__init__
NewLight ==
    [light_intensity |-> PyInt(0), focus_position |-> PyInt(0),
     camera_active |-> PyBool(FALSE)]

\* HeatingBed.__init__: 37.0 degrees, not heating
NewBed ==
    [target_temperature |-> Float(HeatingBedDefaultTemperature),
     current_temperature |-> Float(HeatingBedDefaultTemperature),
     is_heating |-> FALSE]

----------------------------------------------------------------------------
Init ==
    /\ kind \in Kinds
    /\ now = 0
    /\ records = [d \in Registered |-> "DISCONNECTED"]
    /\ activeDevices = EmptyDict
    /\ monitoringTasks = EmptyDict
    /\ tasks = EmptyDict
    /\ temperatureAlerts = EmptyDict
    /\ sink = <<>>
    /\ condSince = [c \in Registered \X AlertTypes |->
                        [since |-> NoTime, onsets |-> "none"]]
    /\ lastOp = NoOp
    /\ activeAlerts = EmptyDict
    /\ monitorTask = "None"
    /\ alertOp = NoAlertOp
    /\ deviceStatus = "DISCONNECTED"
    /\ bed = NewBed
    /\ active_sessions = EmptyDict
    /\ active_cycles = EmptyDict
    /\ light = NewLight
    /\ call = NoCall
    /\ jwt_secret = FirstSecret
    /\ previous_jwt_secret = NoSecret
    /\ issued = {}
    /\ userOp = NoUserOp

----------------------------------------------------------------------------
(* Collaborators of DeviceService *)

\* self.db.get_by_id(Device, device_id): the row exists or the call gives None
get_by_id(d) == d \in DOMAIN records

\* device_record.status = ...; self.db.update(device_record)
db_update(recs, d, status) == [recs EXCEPT ![d] = status]

\* device_instance.start_monitoring() / device.stop_monitoring()
device_start_monitoring(instance) == [instance EXCEPT !.monitoring = TRUE]
device_stop_monitoring(instance) == [instance EXCEPT !.monitoring = FALSE]

\* The object the factory constructs: BaseDevice.__init__ leaves it DISCONNECTED
NewDevice(n) == [inst |-> n, status |-> "DISCONNECTED", monitoring |-> FALSE]

\* The identity of an object constructed while the store holds its objects
FreshInst(store) ==
    CHOOSE n \in Instances : \A k \in DOMAIN store : store[k].inst # n

\* Device.connect() of the variant: every variant sets CONNECTED and returns True
device_connect(instance) == [instance EXCEPT !.status = "CONNECTED"]

\* How Device.disconnect() ends.  SurgicalLight.disconnect() returns True.  The
\* other variants define no disconnect(): the call reaches BaseDevice.disconnect,
\* which raises NotImplementedError; the override they lack is modelled as the
\* specification describes it, returning True or False.
DisconnectResults(k) ==
    IF k = "SurgicalLight" THEN {"True"} ELSE {"True", "False", "raises"}

\* Only SurgicalLight.connect()/disconnect() suspend (asyncio.sleep): the event
\* loop then runs what is scheduled, and a cancelled task is scheduled
Suspends(k) == k = "SurgicalLight"

----------------------------------------------------------------------------
(* DeviceService *)

\* DeviceService.get_device_status: None unless str(device_id) is in the store
InStore(d) == PyStr(d) \in DOMAIN activeDevices

\* connect_device, line 53: `device_id not in self._active_devices`, where
\* device_id is the caller's int and the keys are str(device_id)
NotInActiveDevices(store, d) == PyInt(d) \notin DOMAIN store

\* line 62 with the caller's int as the key, as line 53 has it
StoreInstance_int_key(store, d, instance) == Put(store, PyInt(d), instance)

\* connect_device, line 62: self._active_devices[str(device_id)] = device_instance
StoreInstance(store, d, instance) == Put(store, PyStr(d), instance)

\* The statements of connect_device's try block, after Device.connect(), that
\* can raise: self.db.update (line 64), start_monitoring() (line 65), or none
ConnectFailures == {"none", "update", "start_monitoring"}

\* connect_device(device_id, connection_type); `constructs` is the outcome of
\* DeviceFactory.create_device: an instance, or an exception raised; `fails`
\* is the later statement of the try block that raises
connect_device(d, constructs, fails) ==
    LET same == [result |-> FALSE, store |-> activeDevices, recs |-> records,
                 inst |-> NoInst, suspended |-> FALSE, caught |-> FALSE]
    IN  IF ~get_by_id(d) THEN same
        ELSE IF ~NotInActiveDevices(activeDevices, d) THEN same
        ELSE IF ~constructs THEN [same EXCEPT !.caught = TRUE]
        ELSE LET n == FreshInst(activeDevices)
                 connected == device_connect(NewDevice(n))
             IN  [result |-> fails = "none",
                  store |-> StoreInstance(activeDevices, d,
                                IF fails = "none"
                                THEN device_start_monitoring(connected)
                                ELSE connected),
                  recs |-> IF fails = "update" THEN records
                           ELSE db_update(records, d, "CONNECTED"),
                  inst |-> n,
                  suspended |-> Suspends(kind),
                  caught |-> fails # "none"]

\* disconnect_device with lines 80-84 after the `if disconnected:` block
disconnect_device_unconditional(store, recs, d, disconnected) ==
    LET key == PyStr(d) IN
    IF key \in DOMAIN store
    THEN IF disconnected = "raises"
         THEN [result |-> FALSE, raised |-> TRUE,
               store |-> Put(store, key, device_stop_monitoring(store[key])),
               recs |-> recs,
               suspended |-> FALSE]
         ELSE [result |-> disconnected = "True", raised |-> FALSE,
               store |-> Del(store, key),
               recs |-> IF get_by_id(d) THEN db_update(recs, d, "DISCONNECTED")
                        ELSE recs,
               suspended |-> Suspends(kind)]
    ELSE [result |-> FALSE, raised |-> FALSE, store |-> store, recs |-> recs,
          suspended |-> FALSE]

\* disconnect_device(device_id); `disconnected` is how Device.disconnect() ends.
\* An exception of Device.disconnect() is not caught: it leaves disconnect_device
\* after device.stop_monitoring() has run.
disconnect_device(store, recs, d, disconnected) ==
    LET key == PyStr(d) IN
    IF key \in DOMAIN store
    THEN IF disconnected = "True"
         THEN [result |-> TRUE, raised |-> FALSE,
               store |-> Del(store, key),
               recs |-> IF get_by_id(d) THEN db_update(recs, d, "DISCONNECTED")
                        ELSE recs,
               suspended |-> Suspends(kind)]
         ELSE [result |-> FALSE, raised |-> disconnected = "raises",
               store |-> Put(store, key, device_stop_monitoring(store[key])),
               recs |-> recs,
               suspended |-> disconnected # "raises" /\ Suspends(kind)]
    ELSE [result |-> FALSE, raised |-> FALSE, store |-> store, recs |-> recs,
          suspended |-> FALSE]

----------------------------------------------------------------------------
(* asyncio tasks *)

NewTask(d) == [dev |-> d, sleep |-> 0, cancelled |-> FALSE]

\* The handle of a task created now
FreshHandle(ts) == CHOOSE h \in 1..MaxTasks : h \notin DOMAIN ts

\* task.cancel(): a request; the loop wakes the task from its sleep and the
\* task ends when the loop next runs it
Cancel(ts, h) == [ts EXCEPT ![h].cancelled = TRUE, ![h].sleep = 0]

\* The loop throws CancelledError into the cancelled tasks it runs; the monitor
\* loops catch Exception only, so these tasks end
RunLoop(ts, suspended) ==
    IF suspended
    THEN [h \in {x \in DOMAIN ts : ~ts[x].cancelled} |-> ts[h]]
    ELSE ts

----------------------------------------------------------------------------
(* Device-type manager: connect wrapper, stop_monitoring, disconnect wrapper *)

\* create_task without the registry guard
StartsTask_unguarded(registry, d) == TRUE

\* _start_temperature_monitoring / _start_cycle_monitoring /
\* _start_session_monitoring / _start_monitoring: the guard of create_task
StartsTask(registry, d) == PyStr(d) \notin DOMAIN registry

\* stop_monitoring without the membership test
HasTask_unguarded(registry, d) == TRUE

\* stop_monitoring: `if str_id in self._monitoring_tasks`
HasTask(registry, d) == PyStr(d) \in DOMAIN registry

\* stop_monitoring without lines 132-133: the bed's tracked entry survives
stop_monitoring_keeps_alert(registry, ts, alerts, d) ==
    LET key == PyStr(d) IN
    IF key \in DOMAIN registry
    THEN [registry |-> Del(registry, key), ts |-> Cancel(ts, registry[key]),
          alerts |-> alerts, raised |-> FALSE, cancelled |-> registry[key]]
    ELSE [registry |-> registry, ts |-> ts, alerts |-> alerts,
          raised |-> FALSE, cancelled |-> NoTask]

\* stop_monitoring(device_id) as a function of the manager's state; subscripting
\* the registry with a key it lacks raises KeyError
stop_monitoring(registry, ts, alerts, d) ==
    LET key == PyStr(d)
        same == [registry |-> registry, ts |-> ts, alerts |-> alerts,
                 raised |-> FALSE, cancelled |-> NoTask]
    IN
    IF HasTask(registry, d)
    THEN IF key \notin DOMAIN registry
         THEN [same EXCEPT !.raised = TRUE]
         ELSE [registry |-> Del(registry, key),
               ts |-> Cancel(ts, registry[key]),
               alerts |-> IF kind = "HeatingBed" /\ key \in DOMAIN alerts
                          THEN Del(alerts, key) ELSE alerts,
               raised |-> FALSE,
               cancelled |-> registry[key]]
    ELSE same

ConnectDevice(d) ==
    \E constructs \in BOOLEAN, fails \in ConnectFailures :
        LET o == connect_device(d, constructs, fails) IN
            /\ ~constructs => fails = "none"
            /\ activeDevices' = o.store
            /\ records' = o.recs
            /\ tasks' = RunLoop(tasks, o.suspended)
            /\ lastOp' = [NoOp EXCEPT !.name = "connect_device", !.dev = d,
                            !.result = Bool(o.result), !.inst = o.inst,
                            !.caught = o.caught]
            /\ UNCHANGED <<outsideManager, kind, now, monitoringTasks, temperatureAlerts, sink,
                           condSince>>

DisconnectDevice(d) ==
    \E disconnected \in DisconnectResults(kind) :
        LET o == disconnect_device(activeDevices, records, d, disconnected) IN
            /\ activeDevices' = o.store
            /\ records' = o.recs
            /\ tasks' = RunLoop(tasks, o.suspended)
            /\ lastOp' = [NoOp EXCEPT !.name = "disconnect_device", !.dev = d,
                            !.result = IF o.raised THEN "raised"
                                       ELSE Bool(o.result)]
            /\ UNCHANGED <<outsideManager, kind, now, monitoringTasks, temperatureAlerts, sink,
                           condSince>>

\* The connect wrapper without `if connected:`
StartsMonitoring_whatever_connect_returned(success, registry, d) ==
    StartsTask(registry, d)

\* The connect wrapper, lines 31-33: monitoring is started if connect_device
\* returned True
StartsMonitoring(success, registry, d) == success /\ StartsTask(registry, d)

\* connect_bed / connect_light / connect_sterilizer
connect_bed(d) ==
    \E constructs \in BOOLEAN, fails \in ConnectFailures :
        LET o == connect_device(d, constructs, fails)
            starts == StartsMonitoring(o.result, monitoringTasks, d)
            ran == RunLoop(tasks, o.suspended)
        IN
            /\ ~constructs => fails = "none"
            /\ starts => DOMAIN ran # 1..MaxTasks
            /\ activeDevices' = o.store
            /\ records' = o.recs
            /\ tasks' = IF starts THEN Put(ran, FreshHandle(ran), NewTask(d)) ELSE ran
            /\ monitoringTasks' =
                    IF starts THEN Put(monitoringTasks, PyStr(d), FreshHandle(ran))
                    ELSE monitoringTasks
            /\ lastOp' = [NoOp EXCEPT !.name = "connect_bed", !.dev = d,
                            !.result = Bool(o.result), !.inst = o.inst,
                            !.caught = o.caught,
                            !.task = IF starts THEN FreshHandle(ran) ELSE NoTask]
            /\ UNCHANGED <<outsideManager, kind, now, temperatureAlerts, sink, condSince>>

StopMonitoring(d) ==
    LET s == stop_monitoring(monitoringTasks, tasks, temperatureAlerts, d) IN
        /\ monitoringTasks' = s.registry
        /\ tasks' = s.ts
        /\ temperatureAlerts' = s.alerts
        /\ lastOp' = [NoOp EXCEPT !.name = "stop_monitoring", !.dev = d,
                        !.result = IF s.raised THEN "raised" ELSE "none",
                        !.task = s.cancelled]
        /\ UNCHANGED <<outsideManager, kind, now, records, activeDevices, sink, condSince>>

\* disconnect_bed / disconnect_light / disconnect_sterilizer
disconnect_bed(d) ==
    \E disconnected \in DisconnectResults(kind) :
        LET s == stop_monitoring(monitoringTasks, tasks, temperatureAlerts, d)
            o == IF s.raised
                 THEN [result |-> FALSE, raised |-> TRUE, store |-> activeDevices,
                       recs |-> records, suspended |-> FALSE]
                 ELSE disconnect_device(activeDevices, records, d, disconnected)
        IN
            /\ monitoringTasks' = s.registry
            /\ temperatureAlerts' = s.alerts
            /\ tasks' = RunLoop(s.ts, o.suspended)
            /\ activeDevices' = o.store
            /\ records' = o.recs
            /\ lastOp' = [NoOp EXCEPT !.name = "disconnect_bed", !.dev = d,
                            !.result = IF o.raised THEN "raised" ELSE Bool(o.result),
                            !.task = s.cancelled]
            /\ UNCHANGED <<outsideManager, kind, now, sink, condSince>>

----------------------------------------------------------------------------
(* Monitor loops: one iteration, from the status fetch to the sleep *)

\* The history of a condition after a poll that evaluated it
Since(d, type, holds) ==
    LET c == condSince[<<d, type>>] IN
    IF holds
    THEN (IF c.since = NoTime
          THEN [since |-> now, onsets |-> IF c.onsets = "none" THEN "one" ELSE "many"]
          ELSE c)
    ELSE [c EXCEPT !.since = NoTime]

\* alert_details: device_id, alert_type, severity, timestamp
Alert(d, type, severity) ==
    [device_id |-> d, alert_type |-> type, severity |-> severity, at |-> now]

\* An iteration that evaluated nothing: the fetch raised, or gave None
Skipped(fetch, slept) ==
    [fetch |-> fetch, slept |-> slept, alerts |-> temperatureAlerts,
     emitted |-> <<>>, since |-> condSince]

(* HeatingBedManager._monitor_temperature *)

\* line 54: abs(current_temp - target_temp) > 1.0
Deviates(params) ==
    Abs(params.current_temperature - params.target_temperature)
        > HeatingBedDeviationThreshold

\* line 64: (datetime.utcnow() - alert['first_detected']) > timedelta(minutes=5)
DebounceElapsed(first, t) == t - first > HeatingBedDebounce

\* line 91 with >= in the place of >
TemperatureSeverity_from_two_degrees(params) ==
    IF Abs(params.current_temperature - params.target_temperature)
            >= HeatingBedHighSeverity
    THEN "high" ELSE "medium"

\* line 91
TemperatureSeverity(params) ==
    IF Abs(params.current_temperature - params.target_temperature)
            > HeatingBedHighSeverity
    THEN "high" ELSE "medium"

\* _handle_temperature_alert: the alerts it hands to record_device_alert
handle_temperature_alert(d, params) ==
    IF get_by_id(d)
    THEN <<[device_id |-> d, alert_type |-> "temperature_deviation",
            severity |-> TemperatureSeverity(params), at |-> now,
            deviation |-> Abs(params.current_temperature
                                - params.target_temperature)]>>
    ELSE <<>>

\* lines 55-59 and 61: the tracked entry the iteration works on
TrackedEntry(alerts, key) ==
    IF key \notin DOMAIN alerts
    THEN [first_detected |-> now, alert_sent |-> FALSE]
    ELSE alerts[key]

\* line 63 without the alert_sent test
NotYetSent_ignored(entry) == TRUE

\* line 63: an alert not yet sent for the entry
NotYetSent(entry) == ~entry.alert_sent

\* lines 69-72 left out: the entry outlives the deviation
ClearEntry_never(alerts, key) == alerts

\* lines 69-72 clearing only an entry whose alert has not been sent
ClearEntry_keeps_fired(alerts, key) ==
    IF key \in DOMAIN alerts /\ ~alerts[key].alert_sent THEN Del(alerts, key) ELSE alerts

\* lines 69-72: the table after a poll that found no deviation
ClearEntry(alerts, key) ==
    IF key \in DOMAIN alerts THEN Del(alerts, key) ELSE alerts

monitor_temperature(d, raises, params) ==
    LET key == PyStr(d) IN
    IF InStore(d) /\ raises THEN Skipped("raised", HeatingBedErrorBackoff)
    ELSE IF ~InStore(d) THEN Skipped("none", HeatingBedPollInterval)
    ELSE LET c == Since(d, "temperature_deviation", Deviates(params)) IN
         IF Deviates(params)
         THEN LET entry == TrackedEntry(temperatureAlerts, key)
                  fires == NotYetSent(entry)
                           /\ DebounceElapsed(entry.first_detected, now)
              IN  [fetch |-> "ok", slept |-> HeatingBedPollInterval,
                   alerts |-> Put(temperatureAlerts, key,
                                  [entry EXCEPT !.alert_sent = entry.alert_sent \/ fires]),
                   emitted |-> IF fires
                               THEN handle_temperature_alert(d, params)
                               ELSE <<>>,
                   since |-> [condSince EXCEPT ![<<d, "temperature_deviation">>] = c]]
         ELSE [fetch |-> "ok", slept |-> HeatingBedPollInterval,
               alerts |-> ClearEntry(temperatureAlerts, key),
               emitted |-> <<>>,
               since |-> [condSince EXCEPT ![<<d, "temperature_deviation">>] = c]]

(* SterilizerManager._monitor_cycle *)

\* line 59: `if current_temp and target_temp and current_pressure and target_pressure`
AllTruthy(params) ==
    /\ params.current_temperature # 0
    /\ params.target_temperature # 0
    /\ params.current_pressure # 0
    /\ params.target_pressure # 0

\* line 64
CycleDeviates(params) ==
    \/ Abs(params.current_temperature - params.target_temperature) > CycleTempThreshold
    \/ Abs(params.current_pressure - params.target_pressure) > CyclePressureThreshold

\* line 90
CycleSeverity(params) ==
    IF \/ Abs(params.current_temperature - params.target_temperature) > CycleTempHigh
       \/ Abs(params.current_pressure - params.target_pressure) > CyclePressureHigh
    THEN "high" ELSE "medium"

handle_cycle_alert(d, params) ==
    IF get_by_id(d)
    THEN <<Alert(d, "cycle_deviation", CycleSeverity(params))>>
    ELSE <<>>

monitor_cycle(d, raises, params) ==
    IF InStore(d) /\ raises THEN Skipped("raised", SterilizerErrorBackoff)
    ELSE IF ~InStore(d) THEN Skipped("none", SterilizerPollInterval)
    ELSE LET holds == params.cycle_active /\ AllTruthy(params) /\ CycleDeviates(params)
             c == Since(d, "cycle_deviation", holds)
         IN  [fetch |-> "ok", slept |-> SterilizerPollInterval,
              alerts |-> temperatureAlerts,
              emitted |-> IF holds THEN handle_cycle_alert(d, params) ELSE <<>>,
              since |-> [condSince EXCEPT ![<<d, "cycle_deviation">>] = c]]

(* PhototherapyManager._monitor_session *)

\* lines 56-59: planned_duration - (utcnow() - start_time), in seconds
RemainingTime(params) ==
    params.planned_duration_minutes * 60 - (now - params.start_time)

\* line 62
SessionEnding(params) == RemainingTime(params) <= SessionAlertThreshold

\* lines 71-72
IntensityDeviates(params) ==
    Abs(params.current_intensity - params.light_intensity)
        > IntensityDeviationThreshold

\* _handle_session_alert
handle_session_alert(d, type) ==
    IF get_by_id(d)
    THEN <<Alert(d, type, IF type = "session_ending" THEN "low" ELSE "medium")>>
    ELSE <<>>

monitor_session(d, raises, params) ==
    IF InStore(d) /\ raises THEN Skipped("raised", PhototherapyErrorBackoff)
    ELSE IF ~InStore(d) THEN Skipped("none", PhototherapyPollInterval)
    ELSE LET ending == params.session_active /\ SessionEnding(params)
             unstable == params.session_active /\ IntensityDeviates(params)
             cE == Since(d, "session_ending", ending)
             cI == Since(d, "intensity_deviation", unstable)
         IN  [fetch |-> "ok", slept |-> PhototherapyPollInterval,
              alerts |-> temperatureAlerts,
              emitted |->
                  (IF ending THEN handle_session_alert(d, "session_ending")
                   ELSE <<>>)
                  \o
                  (IF unstable
                   THEN handle_session_alert(d, "intensity_deviation")
                   ELSE <<>>),
              since |-> [condSince EXCEPT ![<<d, "session_ending">>] = cE,
                                          ![<<d, "intensity_deviation">>] = cI]]

(* SurgicalLightManager._monitor_light *)

\* line 50: current_intensity < 10
LowIntensity(params) == params.light_intensity < LowIntensityThreshold

\* _handle_alert: prints, and hands nothing to record_device_alert
handle_alert(d) == <<>>

monitor_light(d, raises, params) ==
    IF InStore(d) /\ raises THEN Skipped("raised", SurgicalErrorBackoff)
    ELSE IF ~InStore(d) THEN Skipped("none", SurgicalPollInterval)
    ELSE [fetch |-> "ok", slept |-> SurgicalPollInterval,
          alerts |-> temperatureAlerts,
          emitted |-> IF LowIntensity(params) THEN handle_alert(d) ELSE <<>>,
          since |-> condSince]

Iteration(d, raises, params) ==
    CASE kind = "HeatingBed" -> monitor_temperature(d, raises, params)
      [] kind = "Sterilizer" -> monitor_cycle(d, raises, params)
      [] kind = "PhototherapyLight" -> monitor_session(d, raises, params)
      [] kind = "SurgicalLight" -> monitor_light(d, raises, params)

\* The sleep of each loop's `except Exception` handler
ErrorBackoff(k) ==
    CASE k = "HeatingBed" -> HeatingBedErrorBackoff
      [] k = "Sterilizer" -> SterilizerErrorBackoff
      [] k = "PhototherapyLight" -> PhototherapyErrorBackoff
      [] k = "SurgicalLight" -> SurgicalErrorBackoff

\* The same with the sleep of line 74 in the place of the handler's
RecordRaised_without_backoff(d, o) ==
    [fetch |-> "record_raised", slept |-> PollInterval(kind),
     alerts |-> o.alerts, emitted |-> <<>>, since |-> o.since]

\* An iteration `o` whose first call of record_device_alert raises: nothing
\* reaches the sink, what follows the call in the try block is not run (for
\* the bed line 68, for the phototherapy light the intensity rule), and the
\* handler sleeps the error backoff
RecordRaised(d, o) ==
    LET key == PyStr(d) IN
    [fetch |-> "record_raised", slept |-> ErrorBackoff(kind),
     alerts |-> IF kind = "HeatingBed"
                THEN Put(temperatureAlerts, key, TrackedEntry(temperatureAlerts, key))
                ELSE o.alerts,
     emitted |-> <<>>,
     since |-> IF Len(o.emitted) = 2
               THEN [o.since EXCEPT ![<<d, "intensity_deviation">>] =
                                        condSince[<<d, "intensity_deviation">>]]
               ELSE o.since]

\* A loop whose handler also catches CancelledError goes on polling
CanPoll_swallows_cancel(task) == task.sleep = 0

\* A task runs its next iteration when its sleep is over, unless the loop has
\* a CancelledError to deliver to it: `except Exception` does not catch that
CanPoll(task) == ~task.cancelled /\ task.sleep = 0

MonitorStep(h) ==
    /\ CanPoll(tasks[h])
    /\ \E raises \in BOOLEAN, record_raises \in BOOLEAN, params \in Readings(kind) :
        /\ raises => InStore(tasks[h].dev)
        /\ (raises \/ ~InStore(tasks[h].dev)) => params = AnyReading(kind)
        /\ record_raises => Iteration(tasks[h].dev, raises, params).emitted # <<>>
        /\ LET d == tasks[h].dev
               o == IF record_raises
                    THEN RecordRaised(d, Iteration(d, raises, params))
                    ELSE Iteration(d, raises, params)
           IN
            /\ Len(sink) + Len(o.emitted) <= MaxAlerts
            /\ temperatureAlerts' = o.alerts
            /\ sink' = sink \o o.emitted
            /\ condSince' = o.since
            /\ tasks' = [tasks EXCEPT ![h].sleep = o.slept]
            /\ lastOp' = [NoOp EXCEPT !.name = "monitor", !.dev = d, !.task = h,
                            !.result = o.fetch]
    /\ UNCHANGED <<outsideManager, kind, now, records, activeDevices, monitoringTasks>>

\* The event loop delivers the CancelledError: the task ends
FinishCancelled(h) ==
    /\ tasks[h].cancelled
    /\ tasks' = Del(tasks, h)
    /\ lastOp' = [NoOp EXCEPT !.name = "task_done", !.dev = tasks[h].dev, !.task = h]
    /\ UNCHANGED <<outsideManager, kind, now, records, activeDevices, monitoringTasks,
                   temperatureAlerts, sink, condSince>>

\* Time passes by one poll interval once every runnable task has run
Runnable(task) == task.cancelled \/ task.sleep = 0

Tick(limit) ==
    /\ now < limit * PollInterval(kind)
    /\ \A h \in DOMAIN tasks : ~Runnable(tasks[h])
    /\ now' = now + PollInterval(kind)
    /\ tasks' = [h \in DOMAIN tasks |->
                    [tasks[h] EXCEPT !.sleep = @ - PollInterval(kind)]]
    /\ lastOp' = [NoOp EXCEPT !.name = "tick"]
    /\ UNCHANGED <<outsideManager, kind, records, activeDevices, monitoringTasks,
                   temperatureAlerts, sink, condSince>>

\* The operations of a manager and of its DeviceService on both device ids, in
\* every order, with the tasks polling, being cancelled and ending in between.
\* Time stands still here; it passes in SpecMonitor.
Next ==
    \/ \E d \in DeviceIds : ConnectDevice(d)
    \/ \E d \in DeviceIds : DisconnectDevice(d)
    \/ \E d \in Registered : connect_bed(d)
    \/ \E d \in Registered : StopMonitoring(d)
    \/ \E d \in Registered : disconnect_bed(d)
    \/ \E h \in DOMAIN tasks : MonitorStep(h)
    \/ \E h \in DOMAIN tasks : FinishCancelled(h)

Spec == Init /\ [][Next]_vars

\* The monitor loops over a longer time, for the registered device driven
\* through its manager, with connects in which nothing raises.  Only the heating bed debounces over a window, so only
\* its loop is followed for longer than that window.
Horizon(k) == IF k = "HeatingBed" THEN MaxTicks ELSE MaxShortTicks

NextMonitor ==
    \/ \E d \in Registered : connect_bed(d) /\ ~lastOp'.caught
    \/ \E d \in Registered : StopMonitoring(d)
    \/ \E d \in Registered : disconnect_bed(d)
    \/ \E h \in DOMAIN tasks : MonitorStep(h) /\ lastOp'.result # "record_raised"
    \/ \E h \in DOMAIN tasks : FinishCancelled(h)
    \/ Tick(Horizon(kind))

SpecMonitor == Init /\ [][NextMonitor]_vars

\* The same for the heating bed's manager alone
InitBed == Init /\ kind = "HeatingBed"

SpecBedMonitor == InitBed /\ [][NextMonitor]_vars

\* The operations of a manager alone, its DeviceService reached through it only
NextManager ==
    \/ \E d \in Registered : connect_bed(d)
    \/ \E d \in Registered : StopMonitoring(d)
    \/ \E d \in Registered : disconnect_bed(d)
    \/ \E h \in DOMAIN tasks : MonitorStep(h)
    \/ \E h \in DOMAIN tasks : FinishCancelled(h)

SpecManager == Init /\ [][NextManager]_vars

\* The Device row of d is gone from the database, removed by another client
\* of it: from now on get_device_by_id(d) returns None
RowDeleted(d) ==
    /\ get_by_id(d)
    /\ records' = Del(records, d)
    /\ lastOp' = [NoOp EXCEPT !.name = "row_deleted", !.dev = d]
    /\ UNCHANGED <<outsideManager, kind, now, activeDevices, monitoringTasks, tasks,
                   temperatureAlerts, sink, condSince>>

\* The monitor loops of the bed and of the sterilizer over a few polls with what can go
\* wrong in an iteration: the fetch raising or finding no device, the
\* recording of the alert raising
NextFaults ==
    \/ \E d \in Registered : connect_bed(d) /\ ~lastOp'.caught
    \/ \E d \in Registered : StopMonitoring(d)
    \/ \E h \in DOMAIN tasks : MonitorStep(h)
    \/ \E h \in DOMAIN tasks : FinishCancelled(h)
    \/ Tick(MaxShortTicks)

InitFaults == Init /\ kind \in {"HeatingBed", "Sterilizer"}

SpecFaults == InitFaults /\ [][NextFaults]_vars

\* The heating bed's loop of one connected bed past its debounce window, the
\* record of the bed disappearing at some time
NextLostRecord ==
    \/ \E d \in Registered : connect_bed(d) /\ ~lastOp'.caught
    \/ \E d \in Registered : RowDeleted(d)
    \/ \E h \in DOMAIN tasks : MonitorStep(h)
    \/ Tick(MaxTicks)

SpecLostRecord == InitBed /\ [][NextLostRecord]_vars

----------------------------------------------------------------------------
(* AlertService: start/stop of its monitor, one iteration of _alert_monitor, *)
(* clear_alert.  The notifications only write to the log.                   *)

AlertCheckInterval == 300
PerformanceThreshold == 80

\* Ids of the devices and spare parts the maintenance, warranty and inventory
\* queries can return
ItemIds == {1}

\* The keys of _active_alerts: 'system_performance', 'slow_operations',
\* f'maintenance_{device.id}', f'warranty_{device.id}', f'inventory_{part.id}'
SystemPerformance == <<"system_performance", 0>>
SlowOperations == <<"slow_operations", 0>>
ItemPrefixes == {"maintenance", "warranty", "inventory"}
AlertIds == {SystemPerformance, SlowOperations} \cup (ItemPrefixes \X ItemIds)

\* get_system_performance(): usage percentages at and above the threshold
Usages == {PerformanceThreshold, PerformanceThreshold + 1}
Metrics == [cpu_usage : Usages, memory_usage : Usages, disk_usage : Usages]

\* The dictionary stored under an alert id (its details and ids left out)
NewAlert(type, severity) ==
    [type |-> type, severity |-> severity, timestamp |-> now]

\* `if alert_id not in self._active_alerts: self._active_alerts[alert_id] = ...`
AddIfAbsent(alerts, id, alert) ==
    IF id \in DOMAIN alerts THEN alerts ELSE Put(alerts, id, alert)

HighUsage(metrics) ==
    \/ metrics.cpu_usage > PerformanceThreshold
    \/ metrics.memory_usage > PerformanceThreshold
    \/ metrics.disk_usage > PerformanceThreshold

check_performance_alerts(alerts, metrics) ==
    IF HighUsage(metrics)
    THEN AddIfAbsent(alerts, SystemPerformance, NewAlert("performance", "high"))
    ELSE Del(alerts, SystemPerformance)

\* slow_ops: whether get_slow_operations() returned a non-empty list
handle_slow_operations(alerts, slow_ops) ==
    IF slow_ops
    THEN AddIfAbsent(alerts, SlowOperations, NewAlert("performance", "medium"))
    ELSE alerts

\* `for item in items:` add f'{prefix}_{item.id}' if absent
CheckItems(alerts, prefix, items, severity) ==
    [id \in (DOMAIN alerts) \cup ({prefix} \X items) |->
        IF id \in DOMAIN alerts THEN alerts[id] ELSE NewAlert(prefix, severity)]

check_maintenance_alerts(alerts, due_devices) ==
    CheckItems(alerts, "maintenance", due_devices, "medium")

check_warranty_alerts(alerts, warranty_devices) ==
    CheckItems(alerts, "warranty", warranty_devices, "low")

check_inventory_alerts(alerts, low_stock) ==
    CheckItems(alerts, "inventory", low_stock, "medium")

\* The alert ids whose condition the iteration's queries reported
Conditions(metrics, slow_ops, due_devices, warranty_devices, low_stock) ==
    (IF HighUsage(metrics) THEN {SystemPerformance} ELSE {})
    \cup (IF slow_ops THEN {SlowOperations} ELSE {})
    \cup ({"maintenance"} \X due_devices)
    \cup ({"warranty"} \X warranty_devices)
    \cup ({"inventory"} \X low_stock)

\* The body of the try block of _alert_monitor, up to the sleep
alert_monitor(alerts, metrics, slow_ops, due_devices, warranty_devices, low_stock) ==
    LET performance == check_performance_alerts(alerts, metrics)
        slow == IF slow_ops THEN handle_slow_operations(performance, slow_ops)
                ELSE performance
        maintenance == check_maintenance_alerts(slow, due_devices)
        warranty == check_warranty_alerts(maintenance, warranty_devices)
    IN  check_inventory_alerts(warranty, low_stock)

managerVars ==
    <<kind, records, activeDevices, monitoringTasks, tasks, temperatureAlerts,
      sink, condSince, lastOp>>

AlertStartMonitoring ==
    /\ monitorTask' = "running"
    /\ alertOp' = [NoAlertOp EXCEPT !.name = "start_monitoring"]
    /\ UNCHANGED <<managerVars, deviceVars, userVars, now, activeAlerts>>

\* cancel(), then the await: the task sleeps or has not started, and ends
AlertStopMonitoring ==
    /\ monitorTask' = "None"
    /\ alertOp' = [NoAlertOp EXCEPT !.name = "stop_monitoring"]
    /\ UNCHANGED <<managerVars, deviceVars, userVars, now, activeAlerts>>

\* One iteration of the running task; its sleep lets the interval pass
AlertMonitorIteration ==
    /\ monitorTask = "running"
    /\ now < MaxChecks * AlertCheckInterval
    /\ \E metrics \in Metrics, slow_ops \in BOOLEAN,
          due_devices \in SUBSET ItemIds, warranty_devices \in SUBSET ItemIds,
          low_stock \in SUBSET ItemIds :
            /\ activeAlerts' = alert_monitor(activeAlerts, metrics, slow_ops,
                                    due_devices, warranty_devices, low_stock)
            /\ alertOp' = [NoAlertOp EXCEPT
                              !.name = "_alert_monitor",
                              !.conds = Conditions(metrics, slow_ops, due_devices,
                                                   warranty_devices, low_stock)]
    /\ now' = now + AlertCheckInterval
    /\ UNCHANGED <<managerVars, deviceVars, userVars, monitorTask>>

clear_alert(alerts, id) == Del(alerts, id)

ClearAlert(id) ==
    /\ activeAlerts' = clear_alert(activeAlerts, id)
    /\ alertOp' = [NoAlertOp EXCEPT !.name = "clear_alert", !.id = id]
    /\ UNCHANGED <<managerVars, deviceVars, userVars, now, monitorTask>>

\* An AlertService on its own; the manager's variables stay as constructed
InitAlerts == Init /\ kind = "HeatingBed"

NextAlerts ==
    \/ AlertStartMonitoring
    \/ AlertStopMonitoring
    \/ AlertMonitorIteration
    \/ \E id \in AlertIds : ClearAlert(id)

SpecAlerts == InitAlerts /\ [][NextAlerts]_vars

----------------------------------------------------------------------------
(* A device object and its own methods.  Temperatures are floats: a call can *)
(* pass any of them, NaN included, and an ordering comparison with NaN is    *)
(* false.                                                                    *)

\* a < b on floats
Less(a, b) == a # NaN /\ b # NaN /\ a[2] < b[2]

Returned(name, args, value) ==
    [name |-> name, args |-> args, result |-> "returned", value |-> value]

Raised(name, args, exception) ==
    [name |-> name, args |-> args, result |-> exception, value |-> "none"]

\* connect() of the four variants: status CONNECTED, True.  The sleep of
\* SurgicalLight.connect raises no Exception, so its handler never runs.
Connect ==
    /\ deviceStatus' = "CONNECTED"
    /\ call' = Returned("connect", <<>>, "True")
    /\ UNCHANGED <<managerVars, alertVars, userVars, now, light, bed, active_sessions, active_cycles>>

\* disconnect(): SurgicalLight's own; the other variants inherit
\* BaseDevice.disconnect, which raises NotImplementedError
disconnect(k, status) ==
    IF k = "SurgicalLight"
    THEN [status |-> "DISCONNECTED", call |-> Returned("disconnect", <<>>, "True")]
    ELSE [status |-> status, call |-> Raised("disconnect", <<>>, "NotImplementedError")]

Disconnect ==
    /\ deviceStatus' = disconnect(kind, deviceStatus).status
    /\ call' = disconnect(kind, deviceStatus).call
    /\ UNCHANGED <<managerVars, alertVars, userVars, now, light, bed, active_sessions, active_cycles>>

(* HeatingBed *)

HeatingBedMinTemp == 200
HeatingBedMaxTemp == 420

\* Arguments of set_temperature: around both limits, and NaN
Temperatures ==
    {Float(HeatingBedMinTemp - 1), Float(HeatingBedMinTemp),
     Float(HeatingBedMaxTemp), Float(HeatingBedMaxTemp + 1), NaN}

\* line 33: temp < min_temp or temp > max_temp
OutsideSafetyLimits(temp) ==
    Less(temp, Float(HeatingBedMinTemp)) \/ Less(Float(HeatingBedMaxTemp), temp)

set_temperature(b, temp) ==
    IF OutsideSafetyLimits(temp)
    THEN [bed |-> b, call |-> Raised("set_temperature", <<temp>>, "ValueError")]
    ELSE [bed |-> [b EXCEPT !.target_temperature = temp],
          call |-> Returned("set_temperature", <<temp>>, "None")]

SetTemperature(temp) ==
    /\ kind = "HeatingBed"
    /\ bed' = set_temperature(bed, temp).bed
    /\ call' = set_temperature(bed, temp).call
    /\ UNCHANGED <<managerVars, alertVars, userVars, now, light, deviceStatus, active_sessions,
                   active_cycles>>

\* reset() that leaves target_temperature alone
reset_keeps_target(b, status) ==
    [bed |-> [NewBed EXCEPT !.target_temperature = b.target_temperature],
     status |-> "IDLE"]

\* reset(): defaults and status IDLE, whatever the bed and its status were
reset(b, status) == [bed |-> NewBed, status |-> "IDLE"]

Reset ==
    /\ kind = "HeatingBed"
    /\ bed' = reset(bed, deviceStatus).bed
    /\ deviceStatus' = reset(bed, deviceStatus).status
    /\ call' = Returned("reset", <<>>, "None")
    /\ UNCHANGED <<managerVars, alertVars, userVars, now, light, active_sessions, active_cycles>>

(* Session and cycle ids: uuid4 gives an id no record has.  The last id is *)
(* never given out: it is the id a caller makes up.                         *)
RecordIds == 1..(MaxRecords + 1)

\* Records are never removed: the ids given out so far are 1..n
FreshId(dict) == Cardinality(DOMAIN dict) + 1

CanCreate(dict) == DOMAIN dict # 1..MaxRecords

(* PhototherapyLight *)

IntensityMin == 0
IntensityMax == 100

Durations == {30, 60}
Intensities == {IntensityMin - 1, IntensityMin, IntensityMax, IntensityMax + 1}

\* line 26 without its lower limit
IntensityWithinLimits_no_minimum(intensity) == intensity <= IntensityMax

\* line 26: 0 <= intensity <= 100
IntensityWithinLimits(intensity) ==
    IntensityMin <= intensity /\ intensity <= IntensityMax

start_session(status, sessions, duration, intensity) ==
    IF status # "CONNECTED"
    THEN [sessions |-> sessions,
          call |-> Raised("start_session", <<duration, intensity>>, "RuntimeError")]
    ELSE IF ~IntensityWithinLimits(intensity)
    THEN [sessions |-> sessions,
          call |-> Raised("start_session", <<duration, intensity>>, "ValueError")]
    ELSE [sessions |-> Put(sessions, FreshId(sessions),
                           [duration |-> duration, intensity |-> intensity,
                            status |-> "running"]),
          call |-> Returned("start_session", <<duration, intensity>>,
                            FreshId(sessions))]

get_session(sessions, session_id) ==
    IF session_id \notin DOMAIN sessions
    THEN Raised("get_session", <<session_id>>, "ValueError")
    ELSE Returned("get_session", <<session_id>>, sessions[session_id])

\* stop_session that completes every session
stop_session_all(sessions, session_id) ==
    IF session_id \notin DOMAIN sessions
    THEN [sessions |-> sessions,
          call |-> Raised("stop_session", <<session_id>>, "ValueError")]
    ELSE [sessions |-> [id \in DOMAIN sessions |->
                            [sessions[id] EXCEPT !.status = "completed"]],
          call |-> Returned("stop_session", <<session_id>>, "None")]

stop_session(sessions, session_id) ==
    IF session_id \notin DOMAIN sessions
    THEN [sessions |-> sessions,
          call |-> Raised("stop_session", <<session_id>>, "ValueError")]
    ELSE [sessions |-> [sessions EXCEPT ![session_id].status = "completed"],
          call |-> Returned("stop_session", <<session_id>>, "None")]

StartSession(duration, intensity) ==
    LET o == start_session(deviceStatus, active_sessions, duration, intensity) IN
    /\ kind = "PhototherapyLight"
    /\ o.call.result = "returned" => CanCreate(active_sessions)
    /\ active_sessions' = o.sessions
    /\ call' = o.call
    /\ UNCHANGED <<managerVars, alertVars, userVars, now, light, deviceStatus, bed, active_cycles>>

GetSession(session_id) ==
    /\ kind = "PhototherapyLight"
    /\ call' = get_session(active_sessions, session_id)
    /\ UNCHANGED <<managerVars, alertVars, userVars, now, light, deviceStatus, bed, active_sessions,
                   active_cycles>>

StopSession(session_id) ==
    /\ kind = "PhototherapyLight"
    /\ active_sessions' = stop_session(active_sessions, session_id).sessions
    /\ call' = stop_session(active_sessions, session_id).call
    /\ UNCHANGED <<managerVars, alertVars, userVars, now, light, deviceStatus, bed, active_cycles>>

(* Sterilizer *)

\* _cycle_types with the durations of quick and standard exchanged
CycleTypes_exchanged ==
    [standard |-> [temp |-> Float(1340), duration |-> PyInt(10)],
     quick    |-> [temp |-> Float(1340), duration |-> PyInt(20)],
     delicate |-> [temp |-> Float(1210), duration |-> PyInt(30)]]

\* _cycle_types: temperature in tenths of a degree, duration in minutes
CycleTypes ==
    [standard |-> [temp |-> Float(1340), duration |-> PyInt(20)],
     quick    |-> [temp |-> Float(1340), duration |-> PyInt(10)],
     delicate |-> [temp |-> Float(1210), duration |-> PyInt(30)]]

\* Arguments of start_cycle: 'custom' is no key of _cycle_types
CycleTypeArgs == {"standard", "quick", "delicate", "custom"}
TemperatureArgs == {PyNone, Float(1250)}
DurationArgs == {PyNone, PyInt(15)}

\* lines 27-31 with the standard preset as the default of .get()
CycleParams_default_standard(temperature, duration, cycle_type) ==
    LET preset == IF cycle_type \in DOMAIN CycleTypes THEN CycleTypes[cycle_type]
                  ELSE CycleTypes["standard"]
        withTemp == IF temperature # PyNone THEN Put(preset, "temp", temperature)
                    ELSE preset
    IN  IF duration # PyNone THEN Put(withTemp, "duration", duration) ELSE withTemp

\* lines 27-31: the preset's copy, or {}, then the overrides
CycleParams(temperature, duration, cycle_type) ==
    LET preset == IF cycle_type \in DOMAIN CycleTypes THEN CycleTypes[cycle_type]
                  ELSE EmptyDict
        withTemp == IF temperature # PyNone THEN Put(preset, "temp", temperature)
                    ELSE preset
    IN  IF duration # PyNone THEN Put(withTemp, "duration", duration) ELSE withTemp

\* start_cycle reading the parameters with .get(): a missing one is stored as
\* None
start_cycle_stores_partial(status, cycles, temperature, duration, cycle_type) ==
    LET args == <<temperature, duration, cycle_type>>
        cycle_params == CycleParams(temperature, duration, cycle_type)
        Get(key) == IF key \in DOMAIN cycle_params THEN cycle_params[key] ELSE PyNone
    IN  IF status # "CONNECTED"
        THEN [cycles |-> cycles, call |-> Raised("start_cycle", args, "RuntimeError")]
        ELSE IF DOMAIN cycle_params = {}
        THEN [cycles |-> cycles, call |-> Raised("start_cycle", args, "ValueError")]
        ELSE [cycles |-> Put(cycles, FreshId(cycles),
                             [cycle_type |-> cycle_type,
                              temperature |-> Get("temp"),
                              duration |-> Get("duration"),
                              status |-> "running"]),
              call |-> Returned("start_cycle", args, FreshId(cycles))]

start_cycle(status, cycles, temperature, duration, cycle_type) ==
    LET args == <<temperature, duration, cycle_type>>
        cycle_params == CycleParams(temperature, duration, cycle_type)
    IN  IF status # "CONNECTED"
        THEN [cycles |-> cycles, call |-> Raised("start_cycle", args, "RuntimeError")]
        ELSE IF DOMAIN cycle_params = {}
        THEN [cycles |-> cycles, call |-> Raised("start_cycle", args, "ValueError")]
        ELSE IF DOMAIN cycle_params # {"temp", "duration"}
        THEN [cycles |-> cycles, call |-> Raised("start_cycle", args, "KeyError")]
        ELSE [cycles |-> Put(cycles, FreshId(cycles),
                             [cycle_type |-> cycle_type,
                              temperature |-> cycle_params["temp"],
                              duration |-> cycle_params["duration"],
                              status |-> "running"]),
              call |-> Returned("start_cycle", args, FreshId(cycles))]

get_cycle_status(cycles, cycle_id) ==
    IF cycle_id \notin DOMAIN cycles
    THEN Raised("get_cycle_status", <<cycle_id>>, "ValueError")
    ELSE Returned("get_cycle_status", <<cycle_id>>, cycles[cycle_id].status)

abort_cycle(cycles, cycle_id) ==
    IF cycle_id \notin DOMAIN cycles
    THEN [cycles |-> cycles,
          call |-> Raised("abort_cycle", <<cycle_id>>, "ValueError")]
    ELSE [cycles |-> [cycles EXCEPT ![cycle_id].status = "aborted"],
          call |-> Returned("abort_cycle", <<cycle_id>>, "None")]

StartCycle(temperature, duration, cycle_type) ==
    LET o == start_cycle(deviceStatus, active_cycles, temperature, duration,
                         cycle_type) IN
    /\ kind = "Sterilizer"
    /\ o.call.result = "returned" => CanCreate(active_cycles)
    /\ active_cycles' = o.cycles
    /\ call' = o.call
    /\ UNCHANGED <<managerVars, alertVars, userVars, now, light, deviceStatus, bed, active_sessions>>

GetCycleStatus(cycle_id) ==
    /\ kind = "Sterilizer"
    /\ call' = get_cycle_status(active_cycles, cycle_id)
    /\ UNCHANGED <<managerVars, alertVars, userVars, now, light, deviceStatus, bed, active_sessions,
                   active_cycles>>

AbortCycle(cycle_id) ==
    /\ kind = "Sterilizer"
    /\ active_cycles' = abort_cycle(active_cycles, cycle_id).cycles
    /\ call' = abort_cycle(active_cycles, cycle_id).call
    /\ UNCHANGED <<managerVars, alertVars, userVars, now, light, deviceStatus, bed, active_sessions>>

(* SurgicalLight *)

PercentMin == 0
PercentMax == 100

SupportedParameters == {"light_intensity", "focus_position", "camera_active"}

\* Arguments of set_parameter: 'brightness' is no supported parameter
ParameterArgs == SupportedParameters \cup {"brightness"}
ValueArgs ==
    {PyInt(PercentMin - 1), PyInt(PercentMin), PyInt(PercentMax),
     PyInt(PercentMax + 1), Float(50), NaN, PyStr(50), PyText, PyBool(TRUE),
     PyBool(FALSE), PyNone, PyHugeInt}

\* float(value): the float, or the exception it raises
ToFloat(value) ==
    CASE value[1] \in {"int", "bool", "str"} ->
            [raises |-> "none", float |-> Float(value[2])]
      [] value[1] \in {"float", "nan"} -> [raises |-> "none", float |-> value]
      [] value[1] = "text" -> [raises |-> "ValueError", float |-> NaN]
      [] value[1] = "bigint" -> [raises |-> "OverflowError", float |-> NaN]
      [] OTHER -> [raises |-> "TypeError", float |-> NaN]

\* bool(value)
ToBool(value) ==
    CASE value[1] \in {"int", "bool", "float"} -> value[2] # 0
      [] value[1] = "None" -> FALSE
      [] OTHER -> TRUE

\* lines 61, 65: 0 <= float(value) <= 100
WithinPercent(f) == f # NaN /\ PercentMin <= f[2] /\ f[2] <= PercentMax

\* set_parameter: `except (ValueError, TypeError)` turns these two into False
set_parameter(l, parameter, value) ==
    LET args == <<parameter, value>>
        f == ToFloat(value)
    IN  IF parameter \notin SupportedParameters
        THEN [light |-> l, call |-> Returned("set_parameter", args, "False")]
        ELSE IF parameter = "camera_active"
        THEN [light |-> [l EXCEPT !.camera_active = PyBool(ToBool(value))],
              call |-> Returned("set_parameter", args, "True")]
        ELSE IF f.raises \in {"ValueError", "TypeError"}
        THEN [light |-> l, call |-> Returned("set_parameter", args, "False")]
        ELSE IF f.raises # "none"
        THEN [light |-> l, call |-> Raised("set_parameter", args, f.raises)]
        ELSE IF WithinPercent(f.float)
        THEN [light |-> [l EXCEPT ![parameter] = f.float],
              call |-> Returned("set_parameter", args, "True")]
        ELSE [light |-> l, call |-> Returned("set_parameter", args, "False")]

SetParameter(parameter, value) ==
    /\ kind = "SurgicalLight"
    /\ light' = set_parameter(light, parameter, value).light
    /\ call' = set_parameter(light, parameter, value).call
    /\ UNCHANGED <<managerVars, alertVars, userVars, now, deviceStatus, bed,
                   active_sessions, active_cycles>>

\* One device object of each variant, called in every order
NextDevice ==
    \/ Connect
    \/ Disconnect
    \/ \E temp \in Temperatures : SetTemperature(temp)
    \/ Reset
    \/ \E duration \in Durations, intensity \in Intensities :
            StartSession(duration, intensity)
    \/ \E session_id \in RecordIds : GetSession(session_id)
    \/ \E session_id \in RecordIds : StopSession(session_id)
    \/ \E temperature \in TemperatureArgs, duration \in DurationArgs,
          cycle_type \in CycleTypeArgs :
            StartCycle(temperature, duration, cycle_type)
    \/ \E cycle_id \in RecordIds : GetCycleStatus(cycle_id)
    \/ \E cycle_id \in RecordIds : AbortCycle(cycle_id)
    \/ \E parameter \in ParameterArgs, value \in ValueArgs :
            SetParameter(parameter, value)

SpecDevice == Init /\ [][NextDevice]_vars

----------------------------------------------------------------------------
(* UserService: tokens, their verification, rotation of the signing secret *)

JwtExpiry == 3600

\* A token signed by somebody else, not expired within the model's time
ForgedToken == Token(ForeignSecret, JwtExpiry * (MaxHalfHours + 1))

\* secrets.token_hex(32)
FreshSecret(current) == current + 1

\* authenticate() of an active user with the right password: the token is
\* signed with jwt_secret and expires jwt_expiry from now
authenticate(secret, t) == Token(secret, t + JwtExpiry)

\* rotate_jwt_secret() that drops the old secret
rotate_jwt_secret_without_grace(current, previous) ==
    [jwt_secret |-> FreshSecret(current), previous_jwt_secret |-> NoSecret]

\* rotate_jwt_secret()
rotate_jwt_secret(current, previous) ==
    [jwt_secret |-> FreshSecret(current), previous_jwt_secret |-> current]

\* jwt.decode(token, secret) followed by `current_time <= payload['exp']`:
\* the signature is the secret's and the token has not expired
Decodes(token, secret, t) == token.secret = secret /\ t < token.exp

\* verify_token: the current secret first, then the previous one if there is one
verify_token(token, current, previous, t) ==
    IF token = NoToken THEN "None"
    ELSE IF Decodes(token, current, t) THEN "payload"
    ELSE IF previous # NoSecret /\ Decodes(token, previous, t) THEN "payload"
    ELSE "None"

\* authenticate(username, password); `valid`: the user exists, is active and
\* the password matches
Authenticate(valid) ==
    /\ valid => Cardinality(issued \cup {authenticate(jwt_secret, now)}) <= MaxTokens
    /\ issued' = IF valid THEN issued \cup {authenticate(jwt_secret, now)} ELSE issued
    /\ userOp' = [name |-> "authenticate",
                  token |-> IF valid THEN authenticate(jwt_secret, now) ELSE NoToken,
                  result |-> IF valid THEN "token" ELSE "None"]
    /\ UNCHANGED <<managerVars, alertVars, deviceVars, now, jwt_secret,
                   previous_jwt_secret>>

VerifyToken(token) ==
    /\ userOp' = [name |-> "verify_token", token |-> token,
                  result |-> verify_token(token, jwt_secret, previous_jwt_secret, now)]
    /\ UNCHANGED <<managerVars, alertVars, deviceVars, now, jwt_secret,
                   previous_jwt_secret, issued>>

RotateJwtSecret ==
    /\ jwt_secret < FirstSecret + MaxRotations
    /\ jwt_secret' = rotate_jwt_secret(jwt_secret, previous_jwt_secret).jwt_secret
    /\ previous_jwt_secret' =
            rotate_jwt_secret(jwt_secret, previous_jwt_secret).previous_jwt_secret
    /\ userOp' = [NoUserOp EXCEPT !.name = "rotate_jwt_secret"]
    /\ UNCHANGED <<managerVars, alertVars, deviceVars, now, issued>>

\* Half of the tokens' lifetime passes
UserTick ==
    /\ now < MaxHalfHours * (JwtExpiry \div 2)
    /\ now' = now + JwtExpiry \div 2
    /\ userOp' = [NoUserOp EXCEPT !.name = "tick"]
    /\ UNCHANGED <<managerVars, alertVars, deviceVars, jwt_secret,
                   previous_jwt_secret, issued>>

\* A UserService on its own
InitUser == Init /\ kind = "HeatingBed"

NextUser ==
    \/ \E valid \in BOOLEAN : Authenticate(valid)
    \/ \E token \in issued \cup {ForgedToken, NoToken} : VerifyToken(token)
    \/ RotateJwtSecret
    \/ UserTick

SpecUser == InitUser /\ [][NextUser]_vars

----------------------------------------------------------------------------
(* Properties *)

TemperatureKey(d) == <<d, "temperature_deviation">>

\* The alerts recorded by the steps of the current transition
NewAlerts == { i \in 1..Len(sink') : i > Len(sink) }

\* The temperature alerts recorded for bed d after time t
TemperatureAlertsAfter(d, t) ==
    { i \in 1..Len(sink) :
        /\ sink[i].device_id = d
        /\ sink[i].alert_type = "temperature_deviation"
        /\ sink[i].at > t }

\* C1: a temperature_deviation alert reaches the sink only from a monitor
\* iteration, only while the deviation has held at every evaluated poll since
\* its most recent onset, and only when at least 5 minutes have passed since
\* that onset; after the deviation clears and recurs the onset is the new one.
C1_AlertOnlyAfterDebounce ==
    [][\A i \in NewAlerts :
          sink'[i].alert_type = "temperature_deviation" =>
              LET c == condSince'[TemperatureKey(sink'[i].device_id)] IN
                /\ lastOp'.name = "monitor"
                /\ c.since # NoTime
                /\ now' - c.since >= HeatingBedDebounce]_vars

\* C1 witness: an alert recorded now for a deviation that had cleared and
\* recurred, more than 5 minutes after the second onset
C1_Witness ==
    /\ kind = "HeatingBed"
    /\ lastOp.name = "monitor"
    /\ Len(sink) >= 1
    /\ sink[Len(sink)].at = now
    /\ sink[Len(sink)].alert_type = "temperature_deviation"
    /\ condSince[TemperatureKey(lastOp.dev)].onsets = "many"
    /\ condSince[TemperatureKey(lastOp.dev)].since # NoTime

\* What C2 says of the tracked entries, with `elapsed(first)` telling whether
\* the window of an entry armed at `first` is over at the present poll
C2_Body(elapsed(_)) ==
    kind = "HeatingBed" =>
        \A d \in Registered :
            PyStr(d) \in DOMAIN temperatureAlerts =>
                LET e == temperatureAlerts[PyStr(d)] IN
                  /\ Cardinality(TemperatureAlertsAfter(d, e.first_detected))
                        = IF e.alert_sent THEN 1 ELSE 0
                  /\ ( /\ lastOp.name = "monitor"
                       /\ lastOp.dev = d
                       /\ lastOp.result = "ok"
                       /\ elapsed(e.first_detected) ) => e.alert_sent

AtLeastWindow(first) == now - first >= HeatingBedDebounce
MoreThanWindow(first) == now - first > HeatingBedDebounce

C3_OncePerOnset ==
    \A i, j \in 1..Len(sink) :
        ( /\ sink[i].device_id = sink[j].device_id
          /\ sink[i].alert_type = sink[j].alert_type
          /\ sink[i].at < sink[j].at )
        => LET c == condSince[<<sink[i].device_id, sink[i].alert_type>>] IN
             ~(c.since # NoTime /\ c.since <= sink[i].at)

\* C4: a heating-bed poll that finds no deviation leaves no tracked entry for
\* the bed, whether the entry was only armed or had fired.
C4_ClearRemovesEntry ==
    kind = "HeatingBed" =>
        \A d \in Registered :
            ( /\ lastOp.name = "monitor"
              /\ lastOp.dev = d
              /\ lastOp.result = "ok"
              /\ condSince[TemperatureKey(d)].since = NoTime )
            => PyStr(d) \notin DOMAIN temperatureAlerts

\* C4 witness: the poll after the one that recorded the alert finds the
\* deviation gone
C4_Witness ==
    /\ kind = "HeatingBed"
    /\ lastOp.name = "monitor"
    /\ lastOp.result = "ok"
    /\ condSince[TemperatureKey(lastOp.dev)].since = NoTime
    /\ PyStr(lastOp.dev) \notin DOMAIN temperatureAlerts
    /\ \E i \in 1..Len(sink) :
            /\ sink[i].device_id = lastOp.dev
            /\ sink[i].at = now - HeatingBedPollInterval

\* C5: a monitor iteration (the status fetch and what follows it) is only run
\* by a task that exists and has not been cancelled, so a cancelled task, and
\* all the more a finished one, fetches no status and records no alert.
C5_NoPollAfterCancel ==
    lastOp.name = "monitor" =>
        /\ lastOp.task \in DOMAIN tasks
        /\ ~tasks[lastOp.task].cancelled

\* C5 witness: a cancelled task has ended while the device it polled is still
\* in the store and has been polled
C5_Witness ==
    /\ lastOp.name = "task_done"
    /\ InStore(lastOp.dev)
    /\ \E i \in 1..Len(sink) : sink[i].device_id = lastOp.dev

\* C6: when stop_monitoring or the manager's disconnect wrapper returns, the
\* task it cancelled has exited, and the wrapper never returns true while a
\* monitor task of that device has not ended.
C6_StopWaitsForTask ==
    /\ ( /\ lastOp.name \in {"stop_monitoring", "disconnect_bed"}
         /\ lastOp.task # NoTask )
       => lastOp.task \notin DOMAIN tasks
    /\ ( /\ lastOp.name = "disconnect_bed"
         /\ lastOp.result = "true" )
       => \A h \in DOMAIN tasks : tasks[h].dev # lastOp.dev

C8_StopWithoutTaskIsNoOp ==
    [][\A d \in DeviceIds :
          ( /\ lastOp'.name = "stop_monitoring"
            /\ lastOp'.dev = d
            /\ PyStr(d) \notin DOMAIN monitoringTasks )
          => /\ lastOp'.result = "none"
             /\ UNCHANGED <<monitoringTasks, tasks, temperatureAlerts>>]_vars

\* C8 witness: a second stop_monitoring, while the task the first one cancelled
\* has not ended yet
C8_Witness ==
    /\ lastOp.name = "stop_monitoring"
    /\ lastOp.task = NoTask
    /\ lastOp.result = "none"
    /\ \E h \in DOMAIN tasks : tasks[h].dev = lastOp.dev /\ tasks[h].cancelled

\* C9: connect_device for an id that is in the store returns false and leaves
\* the store as it was.
C9_ConnectWhilePresentIsNoOp ==
    [][\A d \in DeviceIds :
          ( /\ lastOp'.name = "connect_device"
            /\ lastOp'.dev = d
            /\ PyStr(d) \in DOMAIN activeDevices )
          => /\ lastOp'.result = "false"
             /\ lastOp'.inst = NoInst
             /\ activeDevices' = activeDevices]_vars

C11_ExceptionLeavesStore ==
    [][\A d \in DeviceIds :
          ( /\ lastOp'.name = "connect_device"
            /\ lastOp'.dev = d
            /\ lastOp'.caught )
          => /\ lastOp'.result = "false"
             /\ activeDevices' = activeDevices]_vars

\* C12: disconnect_device(d) on an id absent from the store returns false and
\* changes nothing.  On an id in the store it stops the device's monitoring and
\* then calls Device.disconnect(): when that returns true the entry is removed,
\* the record's status is Disconnected and true is returned; when it returns
\* false the entry (its monitoring stopped) stays, the records are untouched
\* and false is returned.  When it raises, the entry stays as well.
C12_DisconnectDevice ==
    [][\A d \in DeviceIds :
          (lastOp'.name = "disconnect_device" /\ lastOp'.dev = d)
          => IF ~InStore(d)
             THEN /\ lastOp'.result = "false"
                  /\ UNCHANGED <<activeDevices, records, monitoringTasks, tasks,
                                 temperatureAlerts, sink>>
             ELSE \/ /\ lastOp'.result = "true"
                     /\ activeDevices' = Del(activeDevices, PyStr(d))
                     /\ get_by_id(d) => records' = db_update(records, d, "DISCONNECTED")
                  \/ /\ lastOp'.result \in {"false", "raised"}
                     /\ activeDevices' =
                            Put(activeDevices, PyStr(d),
                                device_stop_monitoring(activeDevices[PyStr(d)]))
                     /\ records' = records]_vars

\* C12 witness: Device.disconnect() has returned false for a device in the
\* store; disconnect_device returned false and the entry is still there, its
\* monitoring stopped
C12_Witness ==
    /\ lastOp.name = "disconnect_device"
    /\ lastOp.result = "false"
    /\ InStore(lastOp.dev)
    /\ ~activeDevices[PyStr(lastOp.dev)].monitoring
    /\ records[lastOp.dev] = "CONNECTED"

\* C13: an iteration of the alert monitor leaves, for every alert id, an entry
\* exactly when the id's condition was detected: an absent entry is created
\* with the time of the detection, an entry already there is kept as it is,
\* and the entry of a condition that no longer holds is removed; clear_alert(id)
\* removes the entry of id.
C13_EntryWhileConditionHolds ==
    [][/\ alertOp'.name = "_alert_monitor"
          => \A id \in AlertIds :
                IF id \in alertOp'.conds
                THEN /\ id \in DOMAIN activeAlerts'
                     /\ activeAlerts'[id] =
                            IF id \in DOMAIN activeAlerts THEN activeAlerts[id]
                            ELSE [activeAlerts'[id] EXCEPT !.timestamp = now]
                ELSE id \notin DOMAIN activeAlerts'
       /\ alertOp'.name = "clear_alert"
          => alertOp'.id \notin DOMAIN activeAlerts']_vars

\* C14: a device object of every variant starts DISCONNECTED; after connect()
\* it is CONNECTED and the call returned True, or it is in ERROR and the call
\* returned False; after disconnect() it is DISCONNECTED.
C14_StatusAfterConnectAndDisconnect ==
    /\ call.name = "init" => deviceStatus = "DISCONNECTED"
    /\ call.name = "connect"
        => \/ deviceStatus = "CONNECTED" /\ call.result = "returned" /\ call.value = "True"
           \/ deviceStatus = "ERROR" /\ call.result = "returned" /\ call.value = "False"
    /\ call.name = "disconnect" => deviceStatus = "DISCONNECTED"

\* 20.0 <= t <= 42.0
WithinSafetyLimits(t) ==
    /\ t # NaN
    /\ HeatingBedMinTemp <= t[2]
    /\ t[2] <= HeatingBedMaxTemp

\* C15: set_temperature(t) returns and makes t the target exactly when
\* 20.0 <= t <= 42.0, otherwise it raises ValueError and leaves the target; the
\* target is within [20.0, 42.0] after every call of the bed.
C15_TargetWithinSafetyLimits ==
    [][/\ call'.name = "set_temperature"
          => IF WithinSafetyLimits(call'.args[1])
             THEN /\ call'.result = "returned"
                  /\ bed'.target_temperature = call'.args[1]
             ELSE /\ call'.result = "ValueError"
                  /\ bed'.target_temperature = bed.target_temperature
       /\ WithinSafetyLimits(bed'.target_temperature)]_vars

\* C16: reset() of a HeatingBed, whatever its status and target were, leaves
\* target and current temperature at 37.0 and the status IDLE.
C16_ResetRestoresDefaults ==
    [][call'.name = "reset"
          => /\ bed'.target_temperature = Float(370)
             /\ bed'.current_temperature = Float(370)
             /\ deviceStatus' = "IDLE"]_vars

\* C16 witness: reset() has been called on a bed: it is IDLE with its target
\* at 37.0
C16_Witness ==
    /\ kind = "HeatingBed"
    /\ call.name = "reset"
    /\ deviceStatus = "IDLE"
    /\ bed.target_temperature = Float(370)

\* C17: start_session on a light that is not CONNECTED raises RuntimeError;
\* on a CONNECTED light with an intensity outside [0, 100] it raises
\* ValueError; in both cases active_sessions is exactly as it was.
C17_RejectedSessionLeavesSessions ==
    [][call'.name = "start_session"
          => /\ deviceStatus # "CONNECTED"
                => call'.result = "RuntimeError" /\ active_sessions' = active_sessions
             /\ ( /\ deviceStatus = "CONNECTED"
                  /\ (call'.args[2] < 0 \/ call'.args[2] > 100) )
                => call'.result = "ValueError" /\ active_sessions' = active_sessions]_vars

\* C17 witness: a light that holds a session has rejected an intensity below 0
C17_Witness ==
    /\ call.name = "start_session"
    /\ call.result = "ValueError"
    /\ call.args[2] < 0
    /\ DOMAIN active_sessions # {}

\* C18: start_session returns an id no session had and stores the duration and
\* intensity it was given under it; no later call changes the duration or the
\* intensity of a session; get_session(id) returns the session stored under
\* id and raises ValueError for any other id; stop_session(id) changes the
\* status of the session id to completed and nothing else.
C18_SessionsKeepTheirParameters ==
    [][/\ \A id \in DOMAIN active_sessions :
             /\ id \in DOMAIN active_sessions'
             /\ active_sessions'[id].duration = active_sessions[id].duration
             /\ active_sessions'[id].intensity = active_sessions[id].intensity
       /\ (call'.name = "start_session" /\ call'.result = "returned")
          => /\ call'.value \notin DOMAIN active_sessions
             /\ call'.value \in DOMAIN active_sessions'
             /\ active_sessions'[call'.value].duration = call'.args[1]
             /\ active_sessions'[call'.value].intensity = call'.args[2]
       /\ call'.name = "get_session"
          => IF call'.args[1] \in DOMAIN active_sessions
             THEN /\ call'.result = "returned"
                  /\ call'.value = active_sessions[call'.args[1]]
             ELSE call'.result = "ValueError"
       /\ (call'.name = "stop_session" /\ call'.args[1] \in DOMAIN active_sessions)
          => active_sessions' =
                [active_sessions EXCEPT ![call'.args[1]].status = "completed"]]_vars

\* C18 witness: get_session returns a session that was stopped after a second
\* session had been started
C18_Witness ==
    /\ call.name = "get_session"
    /\ call.result = "returned"
    /\ call.value.status = "completed"
    /\ \E id \in DOMAIN active_sessions : active_sessions[id].status = "running"

\* C19: a PhototherapyLight has at most one session with status running and a
\* Sterilizer at most one cycle with status running.
C19_OneRunningRecord ==
    /\ Cardinality({id \in DOMAIN active_sessions :
                        active_sessions[id].status = "running"}) <= 1
    /\ Cardinality({id \in DOMAIN active_cycles :
                        active_cycles[id].status = "running"}) <= 1

\* C20: start_cycle with a known cycle type stores a running cycle whose
\* temperature is the explicit temperature if one was given and else the
\* preset's (standard 134, quick 134, delicate 121), and whose duration is the
\* explicit duration if one was given and else the preset's (20, 10, 30).
C20_PresetsAndOverrides ==
    [][(call'.name = "start_cycle" /\ call'.result = "returned"
            /\ call'.args[3] \in {"standard", "quick", "delicate"})
          => LET temperature == call'.args[1]
                 duration == call'.args[2]
                 cycle_type == call'.args[3]
                 cycle == active_cycles'[call'.value]
             IN  /\ call'.value \notin DOMAIN active_cycles
                 /\ cycle.status = "running"
                 /\ cycle.cycle_type = cycle_type
                 /\ cycle.temperature =
                        IF temperature # PyNone THEN temperature
                        ELSE IF cycle_type = "delicate" THEN Float(1210)
                        ELSE Float(1340)
                 /\ cycle.duration =
                        IF duration # PyNone THEN duration
                        ELSE IF cycle_type = "standard" THEN PyInt(20)
                        ELSE IF cycle_type = "quick" THEN PyInt(10)
                        ELSE PyInt(30)]_vars

\* C20 witness: a quick cycle has been started with an explicit temperature
\* and the preset duration
C20_Witness ==
    /\ call.name = "start_cycle"
    /\ call.result = "returned"
    /\ call.args = <<Float(1250), PyNone, "quick">>
    /\ active_cycles[call.value].duration = PyInt(10)

IsNumber(value) == value[1] \in {"int", "bigint", "float", "nan", "bool"}

\* C22: set_parameter(name, value) never raises.  It returns False and leaves
\* the three parameters alone when name is not one of them, when name is a
\* percentage and value is no number or a number outside [0, 100], and when
\* name is camera_active and value is no bool; otherwise it returns True and
\* changes only the named parameter.
C22_SetParameterReturnsFalse ==
    [][call'.name = "set_parameter"
          => LET name == call'.args[1]
                 value == call'.args[2]
                 rejected ==
                    \/ name \notin {"light_intensity", "focus_position", "camera_active"}
                    \/ /\ name \in {"light_intensity", "focus_position"}
                       /\ (~IsNumber(value) \/ value[1] \in {"bigint", "nan"}
                              \/ value[2] < 0 \/ value[2] > 100)
                    \/ name = "camera_active" /\ value[1] # "bool"
             IN  /\ call'.result = "returned"
                 /\ IF rejected
                    THEN call'.value = "False" /\ light' = light
                    ELSE /\ call'.value = "True"
                         /\ \A other \in DOMAIN light \ {name} :
                                light'[other] = light[other]]_vars

\* C23: a temperature_deviation alert has severity high when the deviation it
\* was fired with is more than 2.0 degrees and medium otherwise; a bed whose
\* tracked entry is marked as sent (in the scenario: 40.0 against 37.0 at
\* every poll for six minutes) has exactly one alert recorded since the entry
\* was armed.
C23_SeverityOfTheOneAlert ==
    kind = "HeatingBed" =>
        /\ \A i \in 1..Len(sink) :
                sink[i].severity = IF sink[i].deviation > 20 THEN "high" ELSE "medium"
        /\ \A d \in Registered :
                ( /\ PyStr(d) \in DOMAIN temperatureAlerts
                  /\ temperatureAlerts[PyStr(d)].alert_sent )
                => \E i \in 1..Len(sink) :
                      TemperatureAlertsAfter(d,
                            temperatureAlerts[PyStr(d)].first_detected) = {i}

\* C23 witness: the scenario.  Six minutes after the deviation of 3.0 degrees
\* was first seen the sink holds one alert, of severity high, fired at the
\* first poll later than five minutes
C23_Witness ==
    /\ kind = "HeatingBed"
    /\ PyStr(1) \in DOMAIN temperatureAlerts
    /\ now - temperatureAlerts[PyStr(1)].first_detected >= 360
    /\ Len(sink) = 1
    /\ sink[1].deviation = 30
    /\ sink[1].severity = "high"
    /\ sink[1].at = temperatureAlerts[PyStr(1)].first_detected + 330

\* C24: rotate_jwt_secret() makes the old secret the previous one and the new
\* secret differs from it; verify_token() accepts an unexpired token that
\* authenticate() signed with the secret in use before the latest rotation, and
\* an unexpired token signed with the secret in use since; it accepts nothing
\* signed with any other secret.
C24_GraceSecret ==
    [][/\ userOp'.name = "rotate_jwt_secret"
          => /\ previous_jwt_secret' = jwt_secret
             /\ jwt_secret' # jwt_secret
       /\ userOp'.name = "verify_token"
          => LET token == userOp'.token IN
             /\ ( /\ token \in issued
                  /\ token.secret \in {jwt_secret, previous_jwt_secret}
                  /\ now < token.exp ) => userOp'.result = "payload"
             /\ userOp'.result = "payload"
                    => /\ token \in issued
                       /\ token.secret \in {jwt_secret, previous_jwt_secret}]_vars

\* C24 witness: after a rotation verify_token has accepted a token issued
\* before it, while a token issued after it is out as well
C24_Witness ==
    /\ userOp.name = "verify_token"
    /\ userOp.result = "payload"
    /\ userOp.token.secret = previous_jwt_secret
    /\ \E token \in issued : token.secret = jwt_secret

\* C25: an iteration of a monitor loop in which the status fetch or the
\* recording of the alert raised leaves the task alive and not cancelled,
\* asleep for the error backoff of its loop; a task that is not cancelled can
\* poll whenever its sleep is over; a task ends only after it has been
\* cancelled.
C25_ErrorsDoNotEndTheTask ==
    [][/\ ( /\ lastOp'.name = "monitor"
            /\ lastOp'.result \in {"raised", "record_raised"} )
          => /\ lastOp'.task \in DOMAIN tasks'
             /\ ~tasks'[lastOp'.task].cancelled
             /\ tasks'[lastOp'.task].sleep = ErrorBackoff(kind)
       /\ \A h \in DOMAIN tasks :
            h \notin DOMAIN tasks'
                => \/ tasks[h].cancelled
                   \/ /\ lastOp'.name \in {"stop_monitoring", "disconnect_bed"}
                      /\ lastOp'.task = h
       /\ \A h \in DOMAIN tasks :
            (~tasks[h].cancelled /\ tasks[h].sleep = 0) => ENABLED MonitorStep(h)]_vars

\* C25 witness: a sterilizer's task whose first iteration found a deviation
\* and could not record it polls again after the backoff, and now its fetch
\* raises
C25_Witness ==
    /\ kind = "Sterilizer"
    /\ lastOp.name = "monitor"
    /\ lastOp.result = "raised"
    /\ now = SterilizerErrorBackoff
    /\ condSince[<<lastOp.dev, "cycle_deviation">>].since = 0
    /\ sink = <<>>

\* C26: a monitor iteration whose status fetch raised or returned nothing
\* records no alert, leaves the tracked alert state as it was and sleeps the
\* error backoff of its loop (60 s for the heating bed).
C26_FailedFetchBacksOff ==
    [][( /\ lastOp'.name = "monitor"
         /\ lastOp'.result \in {"raised", "none"} )
          => /\ sink' = sink
             /\ temperatureAlerts' = temperatureAlerts
             /\ tasks'[lastOp'.task].sleep = ErrorBackoff(kind)]_vars

\* C27: through the connect wrapper, stop_monitoring and the disconnect wrapper
\* of a manager, every id with a registered monitor task is in the session
\* store, and so is the device of every task that is not cancelled; the connect
\* wrapper starts a task only when connect_device returned true; after the
\* disconnect wrapper has returned true no task is registered for the id.
C27_TaskOnlyForStoredDevice ==
    [][/\ \A key \in DOMAIN monitoringTasks' : key \in DOMAIN activeDevices'
       /\ \A h \in DOMAIN tasks' : ~tasks'[h].cancelled
                => PyStr(tasks'[h].dev) \in DOMAIN activeDevices'
       /\ (lastOp'.name = "connect_bed" /\ lastOp'.task # NoTask)
            => lastOp'.result = "true"
       /\ (lastOp'.name = "disconnect_bed" /\ lastOp'.result = "true")
            => PyStr(lastOp'.dev) \notin DOMAIN monitoringTasks']_vars

\* C27 witness: the disconnect wrapper has returned true for a device whose
\* task it cancelled, after a connect whose failure was caught had started none
C27_Witness ==
    /\ lastOp.name = "disconnect_bed"
    /\ lastOp.result = "true"
    /\ lastOp.task # NoTask
    /\ ~InStore(lastOp.dev)
    /\ PyStr(lastOp.dev) \notin DOMAIN monitoringTasks

\* C28: the tracked entry of a heating bed is marked as sent only if a
\* temperature_deviation alert of the bed, recorded since the entry was armed,
\* is in the sink: neither a missing device record nor a raising sink leaves
\* an entry marked without its alert.
C28_SentOnlyIfRecorded ==
    kind = "HeatingBed" =>
        \A d \in Registered :
            ( /\ PyStr(d) \in DOMAIN temperatureAlerts
              /\ temperatureAlerts[PyStr(d)].alert_sent )
            => TemperatureAlertsAfter(d, temperatureAlerts[PyStr(d)].first_detected) # {}

\* C29: when stop_monitoring(d) or disconnect_bed(d) has ended for a bed d
\* that had a monitor task, however disconnect_device ended, d has neither a
\* registered task nor a tracked entry; an entry for d only ever appears in an
\* iteration of the task registered for d, which is not cancelled; so a
\* connect_bed(d) that starts a task finds no tracked entry for d.
C29_StopLeavesNoAlertState ==
    [][/\ ( /\ lastOp'.name \in {"stop_monitoring", "disconnect_bed"}
            /\ lastOp'.task # NoTask )
          => /\ PyStr(lastOp'.dev) \notin DOMAIN monitoringTasks'
             /\ PyStr(lastOp'.dev) \notin DOMAIN temperatureAlerts'
       /\ \A key \in DOMAIN temperatureAlerts' \ DOMAIN temperatureAlerts :
            /\ lastOp'.name = "monitor"
            /\ key = PyStr(lastOp'.dev)
            /\ key \in DOMAIN monitoringTasks
            /\ monitoringTasks[key] = lastOp'.task
            /\ ~tasks[lastOp'.task].cancelled
       /\ ( /\ lastOp'.name = "connect_bed"
            /\ lastOp'.task # NoTask )
          => PyStr(lastOp'.dev) \notin DOMAIN temperatureAlerts']_vars

\* C29 witness: disconnect_bed, in which disconnect_device returned False, has
\* ended for a bed whose alert had just been recorded: the bed has no task
\* and no tracked entry
C29_Witness ==
    /\ kind = "HeatingBed"
    /\ lastOp.name = "disconnect_bed"
    /\ lastOp.result = "false"
    /\ lastOp.task # NoTask
    /\ \E i \in 1..Len(sink) : sink[i].device_id = lastOp.dev /\ sink[i].at = now
    /\ PyStr(lastOp.dev) \notin DOMAIN monitoringTasks
    /\ PyStr(lastOp.dev) \notin DOMAIN temperatureAlerts

\* C30: every call of start_cycle either fails and leaves active_cycles as it
\* was, or returns the id of exactly one new record, which has a temperature
\* and a duration, the other records being untouched; a call with an unknown
\* cycle type and only one of temperature and duration fails.
C30_NoPartialRecord ==
    [][call'.name = "start_cycle"
          => /\ \/ /\ call'.result # "returned"
                   /\ active_cycles' = active_cycles
                \/ /\ call'.result = "returned"
                   /\ call'.value \notin DOMAIN active_cycles
                   /\ DOMAIN active_cycles' = DOMAIN active_cycles \cup {call'.value}
                   /\ \A id \in DOMAIN active_cycles :
                            active_cycles'[id] = active_cycles[id]
                   /\ active_cycles'[call'.value].temperature # PyNone
                   /\ active_cycles'[call'.value].duration # PyNone
             /\ ( /\ call'.args[3] \notin {"standard", "quick", "delicate"}
                  /\ (call'.args[1] = PyNone) # (call'.args[2] = PyNone) )
                => call'.result # "returned"]_vars

\* C30 witness: a call with an unknown cycle type and a temperature but no
\* duration has failed on a connected sterilizer that holds a record
C30_Witness ==
    /\ call.name = "start_cycle"
    /\ call.args = <<Float(1250), PyNone, "custom">>
    /\ call.result = "KeyError"
    /\ deviceStatus = "CONNECTED"
    /\ DOMAIN active_cycles # {}
    /\ \A id \in DOMAIN active_cycles :
            active_cycles[id].temperature # PyNone /\ active_cycles[id].duration # PyNone

====
